---- MODULE Spec2Model ----
(***************************************************************************)
(* Phaser.Utils.Debug (src/src/utils/Debug.js): the debug overlay's        *)
(* start/stop bracket, the line/splitline text cursor and the render*      *)
(* methods, over an explicit model of the CanvasRenderingContext2D state   *)
(* (drawing-state stack, styles, alpha, transform).                        *)
(*                                                                         *)
(* Conventions.  An optional JavaScript argument is a sequence: <<>> is    *)
(* undefined, <<v>> is the value v.  A colour argument is a string, "" is  *)
(* the falsy (omitted) colour.  Angles are counted in quarter turns, so    *)
(* Math.PI * 2 is 4 and every rotation matrix is integral.  globalAlpha    *)
(* takes the integral points of [0,1].  A handler is an operator from the  *)
(* Debug object (a record, `this`) to the Debug object after the call;     *)
(* this.emitted is the list of context calls the handler made and          *)
(* this.raised says that it ended by throwing (a TypeError on a null       *)
(* receiver); after a throw the rest of the handler does not run.          *)
(***************************************************************************)
EXTENDS Integers, Sequences, FiniteSets, TLC

VARIABLES
    context,        \* this.context: NullContext or Ctx2D
    sprite,         \* this.sprite is set (offscreen texture mode)
    surface,        \* the state of the CanvasRenderingContext2D behind context
    font,           \* this.font
    columnWidth,    \* this.columnWidth
    lineHeight,     \* this.lineHeight
    renderShadow,   \* this.renderShadow
    currentX,       \* this.currentX
    currentY,       \* this.currentY
    currentColor,   \* this.currentColor
    currentAlpha,   \* this.currentAlpha
    emitted,        \* context calls made by the most recent call
    raised,         \* the most recent call threw
    last,           \* the most recent call: its name and arguments
    starts,         \* history: surface snapshots before the latest run of starts
    stops,          \* history: stops that followed that run of starts
    run             \* history: the plain line calls since the latest start

vars == <<context, sprite, surface, font, columnWidth, lineHeight, renderShadow,
          currentX, currentY, currentColor, currentAlpha, emitted, raised, last,
          starts, stops, run>>

(***************************************************************************)
(* Bounds of the model.                                                    *)
(***************************************************************************)
MaxDepth == 2       \* brackets open at once (starts without their stop)
MaxOpen == 1        \* brackets that throwing render* calls have left open
MaxLines == 2       \* direct line/splitline calls between two starts
MaxFrags == 2       \* fragments of one splitline call

(***************************************************************************)
(* Values.                                                                 *)
(***************************************************************************)
NullContext == "null"
Ctx2D == "2d"
Undefined == <<>>
UndefinedColor == "undefined"
White == "rgb(255,255,255)"
Black == "rgb(0,0,0)"
Sentinel == "#ff0000"
DefaultFont == "14px Courier"
DefaultColumnWidth == 100
DefaultLineHeight == 16
Identity == <<1, 0, 0, 1, 0, 0>>
FullTurn == 4

\* The colours a canvas accepts; assigning anything else to fillStyle or
\* strokeStyle is ignored by the canvas.
Colors == {White, Black, Sentinel, "#000000", "rgb(1,2,3)", "rgb(255,255,0)",
           "rgb(255, 255, 255)", "rgba(0,255,0,0.5)", "rgba(255,0,0,0.5)",
           "rgba(0,255,0,1)", "rgba(0,255,0,0.3)", "rgb(40,40,40)"}

\* The drawing state a fresh 2d context has.
FreshState == [fillStyle |-> "#000000", strokeStyle |-> "#000000",
               font |-> "10px sans-serif", globalAlpha |-> 1,
               transform |-> Identity, lineWidth |-> "1"]

\* A drawing state the game leaves on its own context while rendering a scene.
SceneState == [fillStyle |-> "rgb(40,40,40)", strokeStyle |-> "rgb(1,2,3)",
               font |-> "bold 20pt Arial", globalAlpha |-> 0,
               transform |-> <<1, 0, 0, 1, -5, -7>>, lineWidth |-> "2"]

HostStates == {FreshState, SceneState}

\* The drawing-state part of the surface (what save pushes and restore pops).
DrawingState(sf) == [fillStyle |-> sf.fillStyle, strokeStyle |-> sf.strokeStyle,
                     font |-> sf.font, globalAlpha |-> sf.globalAlpha,
                     transform |-> sf.transform, lineWidth |-> sf.lineWidth]

WithState(sf, st) == [fillStyle |-> st.fillStyle, strokeStyle |-> st.strokeStyle,
                      font |-> st.font, globalAlpha |-> st.globalAlpha,
                      transform |-> st.transform, lineWidth |-> st.lineWidth,
                      stack |-> sf.stack]

(***************************************************************************)
(* The Debug object as the handlers see it.                                *)
(***************************************************************************)
This == [context |-> context, sprite |-> sprite, surface |-> surface,
         font |-> font, columnWidth |-> columnWidth, lineHeight |-> lineHeight,
         renderShadow |-> renderShadow, currentX |-> currentX,
         currentY |-> currentY, currentColor |-> currentColor,
         currentAlpha |-> currentAlpha, emitted |-> <<>>, raised |-> FALSE]

Throw(this) == [this EXCEPT !.raised = TRUE]

\* A use of this.context as a receiver: a TypeError when it is null.
OnContext(this, after) ==
    IF this.raised THEN this
    ELSE IF this.context = NullContext THEN Throw(this)
    ELSE after

Emit(this, name, text, args) ==
    [this EXCEPT !.emitted = Append(@, [call |-> name, text |-> text, args |-> args,
                                        fillStyle |-> this.surface.fillStyle,
                                        transform |-> this.surface.transform])]

(***************************************************************************)
(* The CanvasRenderingContext2D operations the handlers use.               *)
(***************************************************************************)
save(this) ==
    OnContext(this,
        [Emit(this, "save", "", <<>>) EXCEPT
            !.surface.stack = Append(@, DrawingState(this.surface))])

\* restore on an empty stack does nothing.
restore(this) ==
    OnContext(this,
        LET sf == this.surface
            n == Len(sf.stack)
            e == Emit(this, "restore", "", <<>>)
        IN  IF n = 0 THEN e
            ELSE [e EXCEPT !.surface =
                     WithState([sf EXCEPT !.stack = SubSeq(@, 1, n - 1)], sf.stack[n])])

setTransform(this, m) ==
    OnContext(this, [Emit(this, "setTransform", "", m) EXCEPT !.surface.transform = m])

translate(this, x, y) ==
    OnContext(this,
        LET m == this.surface.transform
        IN  [Emit(this, "translate", "", <<x, y>>) EXCEPT !.surface.transform =
                <<m[1], m[2], m[3], m[4],
                  m[5] + m[1] * x + m[3] * y, m[6] + m[2] * x + m[4] * y>>])

Cos(q) == CASE q % 4 = 0 -> 1 [] q % 4 = 2 -> -1 [] OTHER -> 0
Sin(q) == CASE q % 4 = 1 -> 1 [] q % 4 = 3 -> -1 [] OTHER -> 0

rotate(this, q) ==
    OnContext(this,
        LET m == this.surface.transform
        IN  [Emit(this, "rotate", "", <<q>>) EXCEPT !.surface.transform =
                <<m[1] * Cos(q) + m[3] * Sin(q), m[2] * Cos(q) + m[4] * Sin(q),
                  m[3] * Cos(q) - m[1] * Sin(q), m[4] * Cos(q) - m[2] * Sin(q),
                  m[5], m[6]>>])

setFillStyle(this, c) ==
    OnContext(this, IF c \in Colors THEN [this EXCEPT !.surface.fillStyle = c] ELSE this)

setStrokeStyle(this, c) ==
    OnContext(this, IF c \in Colors THEN [this EXCEPT !.surface.strokeStyle = c] ELSE this)

setFont(this, f) == OnContext(this, [this EXCEPT !.surface.font = f])

setGlobalAlpha(this, a) == OnContext(this, [this EXCEPT !.surface.globalAlpha = a])

setLineWidth(this, w) == OnContext(this, [this EXCEPT !.surface.lineWidth = w])

fillText(this, text, x, y) == OnContext(this, Emit(this, "fillText", text, <<x, y>>))

fillRect(this, x, y, w, h) == OnContext(this, Emit(this, "fillRect", "", <<x, y, w, h>>))

strokeRect(this, x, y, w, h) == OnContext(this, Emit(this, "strokeRect", "", <<x, y, w, h>>))

beginPath(this) == OnContext(this, Emit(this, "beginPath", "", <<>>))

closePath(this) == OnContext(this, Emit(this, "closePath", "", <<>>))

moveTo(this, x, y) == OnContext(this, Emit(this, "moveTo", "", <<x, y>>))

lineTo(this, x, y) == OnContext(this, Emit(this, "lineTo", "", <<x, y>>))

arc(this, x, y, r, a0, a1) == OnContext(this, Emit(this, "arc", "", <<x, y, r, a0, a1>>))

fill(this) == OnContext(this, Emit(this, "fill", "", <<>>))

stroke(this) == OnContext(this, Emit(this, "stroke", "", <<>>))

\* PIXI.updateWebGLTexture(this.baseTexture, gl): the upload of the offscreen texture.
updateWebGLTexture(this) ==
    IF this.raised THEN this ELSE Emit(this, "updateWebGLTexture", "", <<>>)

(***************************************************************************)
(* Unit conversion of the host (game.math.p2px, game.math.p2pxi).          *)
(***************************************************************************)
PxPerUnit == 20

p2px(v) == v * PxPerUnit

p2pxi(v) == v * (-PxPerUnit)

(***************************************************************************)
(* start, stop, line, splitline.                                           *)
(***************************************************************************)
\* start that keeps the instance's columnWidth when the argument is undefined.
start_keepColumnWidth(this, x, y, color, cw) ==
    IF this.raised \/ this.context = NullContext THEN this
    ELSE LET x1 == IF x = Undefined THEN 0 ELSE x[1]
             y1 == IF y = Undefined THEN 0 ELSE y[1]
             c1 == IF color = "" THEN White ELSE color
             w1 == IF cw = Undefined THEN this.columnWidth ELSE cw[1]
             t1 == [this EXCEPT !.currentX = x1, !.currentY = y1,
                                !.currentColor = c1,
                                !.currentAlpha = this.surface.globalAlpha,
                                !.columnWidth = w1]
             t2 == setTransform(save(t1), Identity)
             t3 == setFillStyle(setStrokeStyle(t2, c1), c1)
         IN  setGlobalAlpha(setFont(t3, this.font), 1)

\* start without its context.save().
start_noSave(this, x, y, color, cw) ==
    IF this.raised \/ this.context = NullContext THEN this
    ELSE LET x1 == IF x = Undefined THEN 0 ELSE x[1]
             y1 == IF y = Undefined THEN 0 ELSE y[1]
             c1 == IF color = "" THEN White ELSE color
             w1 == IF cw = Undefined THEN 0 ELSE cw[1]
             t1 == [this EXCEPT !.currentX = x1, !.currentY = y1,
                                !.currentColor = c1,
                                !.currentAlpha = this.surface.globalAlpha,
                                !.columnWidth = w1]
             t3 == setFillStyle(setStrokeStyle(setTransform(t1, Identity), c1), c1)
         IN  setGlobalAlpha(setFont(t3, this.font), 1)

start(this, x, y, color, cw) ==
    IF this.raised \/ this.context = NullContext THEN this
    ELSE LET x1 == IF x = Undefined THEN 0 ELSE x[1]
             y1 == IF y = Undefined THEN 0 ELSE y[1]
             c1 == IF color = "" THEN White ELSE color
             w1 == IF cw = Undefined THEN 0 ELSE cw[1]
             t1 == [this EXCEPT !.currentX = x1, !.currentY = y1,
                                !.currentColor = c1,
                                !.currentAlpha = this.surface.globalAlpha,
                                !.columnWidth = w1]
             t2 == setTransform(save(t1), Identity)
             t3 == setFillStyle(setStrokeStyle(t2, c1), c1)
         IN  setGlobalAlpha(setFont(t3, this.font), 1)

\* stop that fills and uploads the texture whether this.sprite is set or not.
stop_alwaysUpload(this) ==
    LET t1 == setGlobalAlpha(restore(this), this.currentAlpha)
    IN  IF t1.raised THEN t1
        ELSE updateWebGLTexture(fillRect(setFillStyle(t1, Sentinel), 0, 0, 400, 400))

\* stop without its context.restore().
stop_noRestore(this) ==
    LET t1 == setGlobalAlpha(this, this.currentAlpha)
    IN  IF t1.raised \/ ~t1.sprite THEN t1
        ELSE updateWebGLTexture(fillRect(setFillStyle(t1, Sentinel), 0, 0, 400, 400))

\* stop without its assignment of currentAlpha to globalAlpha.
stop_keepAlpha(this) ==
    LET t1 == restore(this)
    IN  IF t1.raised \/ ~t1.sprite THEN t1
        ELSE updateWebGLTexture(fillRect(setFillStyle(t1, Sentinel), 0, 0, 400, 400))

stop(this) ==
    LET t1 == setGlobalAlpha(restore(this), this.currentAlpha)
    IN  IF t1.raised \/ ~t1.sprite THEN t1
        ELSE updateWebGLTexture(fillRect(setFillStyle(t1, Sentinel), 0, 0, 400, 400))

\* The shadow pass drawn at (x, y) instead of (x + 1, y + 1).
shadow_noOffset(this, text, x, y) ==
    IF this.renderShadow
    THEN setFillStyle(fillText(setFillStyle(this, Black), text, x, y), this.currentColor)
    ELSE this

\* The shadow pass shared by line and splitline (renderShadow branch).
shadow(this, text, x, y) ==
    IF this.renderShadow
    THEN setFillStyle(fillText(setFillStyle(this, Black), text, x + 1, y + 1),
                      this.currentColor)
    ELSE this

\* line without its context === null guard.
line_noGuard(this, text, x, y) ==
    IF this.raised THEN this
    ELSE LET t1 == [this EXCEPT !.currentX = IF x = Undefined THEN @ ELSE x[1],
                                !.currentY = IF y = Undefined THEN @ ELSE y[1]]
             t2 == shadow(t1, text, t1.currentX, t1.currentY)
             t3 == fillText(t2, text, t2.currentX, t2.currentY)
         IN  [t3 EXCEPT !.currentY = @ + t3.lineHeight]

\* line without its currentY += lineHeight.
line_noAdvance(this, text, x, y) ==
    IF this.raised \/ this.context = NullContext THEN this
    ELSE LET t1 == [this EXCEPT !.currentX = IF x = Undefined THEN @ ELSE x[1],
                                !.currentY = IF y = Undefined THEN @ ELSE y[1]]
             t2 == shadow(t1, text, t1.currentX, t1.currentY)
         IN  fillText(t2, text, t2.currentX, t2.currentY)

\* line that takes an explicit y as an offset from the cursor.
line_relativeY(this, text, x, y) ==
    IF this.raised \/ this.context = NullContext THEN this
    ELSE LET t1 == [this EXCEPT !.currentX = IF x = Undefined THEN @ ELSE x[1],
                                !.currentY = IF y = Undefined THEN @ ELSE @ + y[1]]
             t2 == shadow(t1, text, t1.currentX, t1.currentY)
             t3 == fillText(t2, text, t2.currentX, t2.currentY)
         IN  [t3 EXCEPT !.currentY = @ + t3.lineHeight]

line(this, text, x, y) ==
    IF this.raised \/ this.context = NullContext THEN this
    ELSE LET t1 == [this EXCEPT !.currentX = IF x = Undefined THEN @ ELSE x[1],
                                !.currentY = IF y = Undefined THEN @ ELSE y[1]]
             t2 == shadow(t1, text, t1.currentX, t1.currentY)
             t3 == fillText(t2, text, t2.currentX, t2.currentY)
         IN  [t3 EXCEPT !.currentY = @ + t3.lineHeight]

\* The for loop of splitline from argument i on, x being the loop's local x.
RECURSIVE splitlineLoop(_, _, _, _)
splitlineLoop(this, frags, i, x) ==
    IF i > Len(frags) THEN this
    ELSE LET t1 == shadow(this, frags[i], x, this.currentY)
             t2 == fillText(t1, frags[i], x, t1.currentY)
         IN  splitlineLoop(t2, frags, i + 1, x + t2.columnWidth)

\* splitline that advances currentY once per fragment.
splitline_perFragment(this, frags) ==
    IF this.raised \/ this.context = NullContext THEN this
    ELSE LET t1 == splitlineLoop(this, frags, 1, this.currentX)
         IN  [t1 EXCEPT !.currentY = @ + Len(frags) * t1.lineHeight]

\* splitline without its context === null guard.
splitline_noGuard(this, frags) ==
    IF this.raised THEN this
    ELSE LET t1 == splitlineLoop(this, frags, 1, this.currentX)
         IN  [t1 EXCEPT !.currentY = @ + t1.lineHeight]

splitline(this, frags) ==
    IF this.raised \/ this.context = NullContext THEN this
    ELSE LET t1 == splitlineLoop(this, frags, 1, this.currentX)
         IN  [t1 EXCEPT !.currentY = @ + t1.lineHeight]

\* Consecutive this.line(text) calls of a render method.
RECURSIVE lineEach(_, _)
lineEach(this, texts) ==
    IF texts = <<>> THEN this
    ELSE lineEach(line(this, Head(texts), Undefined, Undefined), Tail(texts))

\* Consecutive this.splitline(...) calls of a render method.
RECURSIVE splitlineEach(_, _)
splitlineEach(this, rows) ==
    IF rows = <<>> THEN this
    ELSE splitlineEach(splitline(this, Head(rows)), Tail(rows))

(***************************************************************************)
(* The render* methods.  A required data argument is <<>> (null or         *)
(* undefined) or <<record>>; reading a field of a null argument throws.    *)
(***************************************************************************)
\* Evaluating an expression that reads a field of arg, before the call it feeds.
Read(this, arg) == IF this.raised \/ arg # <<>> THEN this ELSE Throw(this)

renderSoundInfo(this, sound, x, y, color) ==
    IF this.context = NullContext THEN this
    ELSE LET c  == IF color = "" THEN White ELSE color
             t1 == Read(start(this, x, y, c, Undefined), sound)
             t2 == lineEach(t1, <<"Sound: ", "Is Ready?: ", "Decoded: ",
                                  "Total Duration: ", "Time: ", "Volume: ", "WebAudio: ">>)
             t3 == IF ~t2.raised /\ sound[1].currentMarker # ""
                   THEN lineEach(t2, <<"Marker: ", "Start: ", "Position: ">>)
                   ELSE t2
         IN  stop(t3)

renderCameraInfo(this, camera, x, y, color) ==
    IF this.context = NullContext THEN this
    ELSE LET c  == IF color = "" THEN White ELSE color
             t1 == Read(start(this, x, y, c, Undefined), camera)
         IN  stop(lineEach(t1, <<"Camera (", "X: ", "Bounds x: ", "View x: ">>))

renderPointer(this, pointer, hideIfUp, downColor, upColor, color) ==
    IF this.context = NullContext \/ pointer = <<>> THEN this
    ELSE LET p    == pointer[1]
             hide == IF hideIfUp = Undefined THEN FALSE ELSE hideIfUp[1]
             down == IF downColor = "" THEN "rgba(0,255,0,0.5)" ELSE downColor
             up   == IF upColor = "" THEN "rgba(255,0,0,0.5)" ELSE upColor
             c    == IF color = "" THEN White ELSE color
             t1   == start(this, <<p.x>>, <<p.y - 100>>, c, Undefined)
             t2   == arc(beginPath(t1), p.x, p.y, p.radius, 0, FullTurn)
             t3   == closePath(fill(setFillStyle(t2, IF p.active THEN down ELSE up)))
             t4   == lineTo(moveTo(beginPath(t3), p.downX, p.downY), p.x, p.y)
             t5   == closePath(stroke(setLineWidth(t4, "2")))
         IN  IF hide /\ p.isUp THEN this
             ELSE stop(lineEach(t5, <<"ID: ", "World X: ", "Screen X: ",
                                      "Duration: ", "is Down: ">>))

\* sprite.input is null on a sprite whose input is not enabled.
renderSpriteInputInfo(this, spr, x, y, color) ==
    IF this.context = NullContext THEN this
    ELSE LET c  == IF color = "" THEN White ELSE color
             t1 == Read(start(this, x, y, c, Undefined), spr)
             t2 == line(t1, "Sprite Input: (", Undefined, Undefined)
             t3 == IF ~t2.raised /\ ~spr[1].hasInput THEN Throw(t2) ELSE t2
         IN  stop(lineEach(t3, <<"x: ", "over: ", "down: ", "just over: ">>))

renderKey(this, key, x, y, color) ==
    IF this.context = NullContext THEN this
    ELSE LET c  == IF color = "" THEN White ELSE color
             t1 == Read(start(this, x, y, c, <<150>>), key)
         IN  stop(splitlineEach(t1,
                 << <<"Key:", "keyCode", "isDown:", "isDown">>,
                    <<"justPressed:", "justPressed", "justReleased:", "justReleased">>,
                    <<"Time Down:", "timeDown", "duration:", "duration">> >>))

renderInputInfo(this, x, y, color) ==
    IF this.context = NullContext THEN this
    ELSE LET c  == IF color = "" THEN "rgb(255,255,0)" ELSE color
             t1 == start(this, x, y, c, Undefined)
         IN  stop(lineEach(t1, <<"Input", "X: ", "World X: ", "Scale X: ", "Screen X: ">>))

renderSpriteInfo(this, spr, x, y, color) ==
    IF this.context = NullContext THEN this
    ELSE LET c  == IF color = "" THEN "rgb(255, 255, 255)" ELSE color
             t1 == Read(start(this, x, y, c, Undefined), spr)
         IN  stop(lineEach(t1, <<"Sprite: ", "x: ", "angle: ", "visible: ">>))

renderSpriteCoords(this, spr, x, y, color) ==
    IF this.context = NullContext THEN this
    ELSE LET c  == IF color = "" THEN "rgb(255, 255, 255)" ELSE color
             t1 == Read(start(this, x, y, c, <<100>>), spr)
             t2 == IF ~t1.raised /\ spr[1].name # ""
                   THEN line(t1, spr[1].name, Undefined, Undefined)
                   ELSE t1
         IN  stop(splitlineEach(t2,
                 << <<"x:", "x", "y:", "y">>,
                    <<"pos x:", "position.x", "pos y:", "position.y">>,
                    <<"world x:", "world.x", "world y:", "world.y">> >>))

\* Coordinates of renderLine are in half pixels (line.start.x + 0.5 is 2 * x + 1).
renderLine(this, ln, color) ==
    IF this.context = NullContext THEN this
    ELSE LET c  == IF color = "" THEN "rgb(255, 255, 255)" ELSE color
             t1 == beginPath(setLineWidth(start(this, <<0>>, <<0>>, c, Undefined), "1"))
             t2 == Read(t1, ln)
             t3 == IF t2.raised THEN t2
                   ELSE lineTo(moveTo(t2, 2 * ln[1].x1 + 1, 2 * ln[1].y1 + 1),
                               2 * ln[1].x2 + 1, 2 * ln[1].y2 + 1)
         IN  stop(stroke(closePath(t3)))

renderLineInfo(this, ln, x, y, color) ==
    IF this.context = NullContext THEN this
    ELSE LET c  == IF color = "" THEN "rgb(255, 255, 255)" ELSE color
             t1 == Read(start(this, x, y, c, <<80>>), ln)
         IN  stop(splitlineEach(t1,
                 << <<"start.x:", "start.x", "start.y:", "start.y">>,
                    <<"end.x:", "end.x", "end.y:", "end.y">>,
                    <<"length:", "length", "angle:", "angle">> >>))

renderPointInfo(this, point, x, y, color) ==
    IF this.context = NullContext THEN this
    ELSE LET c  == IF color = "" THEN "rgb(255, 255, 255)" ELSE color
             t1 == Read(start(this, x, y, c, Undefined), point)
         IN  stop(line(t1, "px: ", Undefined, Undefined))

renderPixel(this, x, y, color) ==
    IF this.context = NullContext THEN this
    ELSE LET c  == IF color = "" THEN "rgba(0,255,0,1)" ELSE color
             t1 == start(this, Undefined, Undefined, "", Undefined)
         IN  stop(fillRect(setFillStyle(t1, c), x, y, 2, 2))

renderPoint(this, point, color) ==
    IF this.context = NullContext THEN this
    ELSE LET c  == IF color = "" THEN "rgba(0,255,0,1)" ELSE color
             t1 == start(this, Undefined, Undefined, "", Undefined)
             t2 == Read(setFillStyle(t1, c), point)
         IN  stop(IF t2.raised THEN t2 ELSE fillRect(t2, point[1].x, point[1].y, 4, 4))

renderRectangle(this, rect, color, filled) ==
    IF this.context = NullContext THEN this
    ELSE LET f  == IF filled = Undefined THEN TRUE ELSE filled[1]
             c  == IF color = "" THEN "rgba(0,255,0,0.3)" ELSE color
             t1 == start(this, Undefined, Undefined, "", Undefined)
             t2 == Read(IF f THEN setFillStyle(t1, c) ELSE setStrokeStyle(t1, c), rect)
             r  == rect[1]
         IN  stop(IF t2.raised THEN t2
                  ELSE IF f THEN fillRect(t2, r.x, r.y, r.width, r.height)
                  ELSE strokeRect(t2, r.x, r.y, r.width, r.height))

\* sprite.getBounds() is read before anything else; the bounds are the rectangle.
renderSpriteBounds(this, spr, color, filled) ==
    IF spr = <<>> THEN Throw(this)
    ELSE renderRectangle(this, <<spr[1].bounds>>, color, filled)

renderCircle(this, circle, color) ==
    IF this.context = NullContext THEN this
    ELSE LET c  == IF color = "" THEN "rgba(0,255,0,0.3)" ELSE color
             t1 == start(this, Undefined, Undefined, "", Undefined)
             t2 == Read(setFillStyle(beginPath(t1), c), circle)
             t3 == IF t2.raised THEN t2
                   ELSE arc(t2, circle[1].x, circle[1].y, circle[1].radius, 0, FullTurn)
         IN  stop(closePath(fill(t3)))

renderText(this, text, x, y, color, fnt) ==
    IF this.context = NullContext THEN this
    ELSE LET c  == IF color = "" THEN White ELSE color
             f  == IF fnt = "" THEN "16px Courier" ELSE fnt
             t1 == start(this, Undefined, Undefined, "", Undefined)
         IN  stop(fillText(setFillStyle(setFont(t1, f), c), text, x, y))

\* sprite.body is null on a sprite without a physics body.
renderBodyInfo(this, spr, x, y, color) ==
    IF this.context = NullContext THEN this
    ELSE LET c  == IF color = "" THEN White ELSE color
             t1 == Read(start(this, x, y, c, <<210>>), spr)
             t2 == IF ~t1.raised /\ ~spr[1].hasBody THEN Throw(t1) ELSE t1
         IN  stop(splitline(t2, <<"x: ", "y: ", "width: ", "height: ">>))

(***************************************************************************)
(* renderPhysicsBody and the shape helpers.  A shape is a record whose tag *)
(* is its p2 class; p2.Rectangle extends p2.Convex.                        *)
(***************************************************************************)
IsRectangle(shape) == shape.tag = "Rectangle"
IsLine(shape) == shape.tag = "Line"
IsConvex(shape) == shape.tag \in {"Rectangle", "Convex"}
IsCircle(shape) == shape.tag = "Circle"

\* The lineTo loop over points[i .. ] of renderShapeRectangle and renderShapeConvex.
RECURSIVE lineToEach(_, _, _)
lineToEach(this, points, i) ==
    IF i > Len(points) THEN this
    ELSE lineToEach(lineTo(this, p2pxi(points[i][1]), p2pxi(points[i][2])), points, i + 1)

renderShapeRectangle(this, x, y, bodyAngle, shape, offset, angle) ==
    LET points == shape.vertices
        t1 == save(beginPath(this))
        t2 == translate(t1, x + p2pxi(offset[1]), y + p2pxi(offset[2]))
        t3 == rotate(t2, bodyAngle + angle)
        t4 == moveTo(t3, p2pxi(points[1][1]), p2pxi(points[1][2]))
    IN  restore(stroke(closePath(lineToEach(t4, points, 2))))

renderShapeLine(this, x, y, bodyAngle, shape, offset, angle) ==
    LET t1 == save(beginPath(this))
        t2 == rotate(translate(t1, x, y), bodyAngle + angle)
        t3 == lineTo(moveTo(setLineWidth(t2, "0.5"), 0, 0), p2px(shape.length), 0)
    IN  restore(stroke(closePath(t3)))

\* renderShapeConvex that translates to (x, y) without the shape's offset.
renderShapeConvex_noOffset(this, x, y, bodyAngle, shape, offset, angle) ==
    LET points == shape.vertices
        t1 == save(beginPath(this))
        t2 == translate(t1, x, y)
        t3 == rotate(t2, bodyAngle + angle)
        t4 == moveTo(t3, p2pxi(points[1][1]), p2pxi(points[1][2]))
    IN  restore(stroke(closePath(lineToEach(t4, points, 2))))

renderShapeConvex(this, x, y, bodyAngle, shape, offset, angle) ==
    LET points == shape.vertices
        t1 == save(beginPath(this))
        t2 == translate(t1, x + p2pxi(offset[1]), y + p2pxi(offset[2]))
        t3 == rotate(t2, bodyAngle + angle)
        t4 == moveTo(t3, p2pxi(points[1][1]), p2pxi(points[1][2]))
    IN  restore(stroke(closePath(lineToEach(t4, points, 2))))

\* renderShapeCircle whose arc ends after half a turn.
renderShapeCircle_halfTurn(this, x, y, bodyAngle, shape, offset, angle) ==
    LET t1 == save(beginPath(this))
        t2 == translate(t1, x + p2pxi(offset[1]), y + p2pxi(offset[2]))
        t3 == arc(t2, 0, 0, p2px(shape.radius), 0, FullTurn \div 2)
    IN  restore(stroke(closePath(t3)))

renderShapeCircle(this, x, y, bodyAngle, shape, offset, angle) ==
    LET t1 == save(beginPath(this))
        t2 == translate(t1, x + p2pxi(offset[1]), y + p2pxi(offset[2]))
        t3 == arc(t2, 0, 0, p2px(shape.radius), 0, FullTurn)
    IN  restore(stroke(closePath(t3)))

\* The loop of renderPhysicsBody with if in place of else if: a shape is
\* drawn by every helper whose class it is an instance of.
RECURSIVE renderShapes_noElse(_, _, _, _, _)
renderShapes_noElse(this, data, i, x, y) ==
    IF i = 0 THEN this
    ELSE LET sh == data.shapes[i]
             o  == data.shapeOffsets[i]
             a  == data.shapeAngles[i]
             t1 == IF IsRectangle(sh) THEN renderShapeRectangle(this, x, y, data.angle, sh, o, a)
                   ELSE this
             t2 == IF IsLine(sh) THEN renderShapeLine(t1, x, y, data.angle, sh, o, a) ELSE t1
             t3 == IF IsConvex(sh) THEN renderShapeConvex(t2, x, y, data.angle, sh, o, a) ELSE t2
             t4 == IF IsCircle(sh) THEN renderShapeCircle(t3, x, y, data.angle, sh, o, a) ELSE t3
         IN  renderShapes_noElse(t4, data, i - 1, x, y)

\* The while (i--) loop of renderPhysicsBody: shapes i, i-1, ..., 1 (1-based).
RECURSIVE renderShapes(_, _, _, _, _)
renderShapes(this, data, i, x, y) ==
    IF i = 0 THEN this
    ELSE LET sh == data.shapes[i]
             o  == data.shapeOffsets[i]
             a  == data.shapeAngles[i]
             t1 == IF IsRectangle(sh) THEN renderShapeRectangle(this, x, y, data.angle, sh, o, a)
                   ELSE IF IsLine(sh) THEN renderShapeLine(this, x, y, data.angle, sh, o, a)
                   ELSE IF IsConvex(sh) THEN renderShapeConvex(this, x, y, data.angle, sh, o, a)
                   ELSE IF IsCircle(sh) THEN renderShapeCircle(this, x, y, data.angle, sh, o, a)
                   ELSE this
         IN  renderShapes(t1, data, i - 1, x, y)

\* view is this.game.camera.view (its x and y).
renderPhysicsBody(this, body, color, view) ==
    IF this.context = NullContext THEN this
    ELSE LET c  == IF color = "" THEN White ELSE color
             t1 == Read(start(this, <<0>>, <<0>>, c, Undefined), body)
             d  == body[1]
             x  == p2pxi(d.position[1]) - view[1]
             y  == p2pxi(d.position[2]) - view[2]
         IN  stop(IF t1.raised THEN t1 ELSE renderShapes(t1, d, Len(d.shapes), x, y))

(***************************************************************************)
(* Construction.                                                           *)
(***************************************************************************)
\* Phaser.Utils.Debug(game): canvas says game.renderType === Phaser.CANVAS,
\* gameContext is game.context (<<>> when the game has none) and hostState
\* the drawing state the game's context is in.  config is the (lineHeight,
\* renderShadow) the caller then sets on the instance; the constructor's
\* own values are (DefaultLineHeight, TRUE).
Debug(canvas, gameContext, hostState, config) ==
    LET fields == [context |-> NullContext, sprite |-> FALSE,
                   surface |-> WithState([stack |-> <<>>], FreshState),
                   font |-> DefaultFont, columnWidth |-> DefaultColumnWidth,
                   lineHeight |-> config[1], renderShadow |-> config[2],
                   currentX |-> 0, currentY |-> 0, currentColor |-> UndefinedColor,
                   currentAlpha |-> 1, emitted |-> <<>>, raised |-> FALSE]
    IN  IF canvas
        THEN IF gameContext = <<>> THEN fields
             ELSE [fields EXCEPT !.context = Ctx2D,
                                 !.surface = WithState([stack |-> <<>>], hostState)]
        ELSE [fillRect(setFillStyle([fields EXCEPT !.context = Ctx2D], Sentinel),
                       0, 0, 400, 400)
                 EXCEPT !.sprite = TRUE]

(***************************************************************************)
(* Arguments the calls are made with.                                      *)
(***************************************************************************)
ColorArgs == {"", "rgb(1,2,3)"}
RenderColors == {"rgb(1,2,3)"}
\* (x, y, columnWidth) of a direct start call.
StartArgs == {<<Undefined, Undefined, Undefined>>, <<<<10>>, <<20>>, <<150>>>>}
RenderX == <<10>>
RenderY == <<20>>
Configs == {<<DefaultLineHeight, TRUE>>, <<DefaultLineHeight, FALSE>>, <<0, TRUE>>}
\* (x, y) of a direct line call.
LineArgs == {<<Undefined, Undefined>>, <<<<30>>, <<20>>>>}
FragNames == <<"f1", "f2", "f3", "f4", "f5", "f6">>
FragLists == {SubSeq(FragNames, 1, k) : k \in 0..MaxFrags}

Sounds == {<<>>, <<[currentMarker |-> ""]>>, <<[currentMarker |-> "intro"]>>}
Cameras == {<<>>, <<[x |-> 0, y |-> 0]>>}
Keys == {<<>>, <<[keyCode |-> 32]>>}
Pointers == {<<>>} \cup
            {<<[x |-> 10, y |-> 120, radius |-> 44, downX |-> 8, downY |-> 118,
                isUp |-> u, active |-> a]>> : u, a \in BOOLEAN}
Sprites == {<<>>,
            <<[name |-> "", hasInput |-> FALSE, hasBody |-> FALSE,
               bounds |-> [x |-> 0, y |-> 0, width |-> 32, height |-> 32]]>>,
            <<[name |-> "hero", hasInput |-> TRUE, hasBody |-> TRUE,
               bounds |-> [x |-> 5, y |-> 6, width |-> 32, height |-> 32]]>>}
Lines == {<<>>, <<[x1 |-> 0, y1 |-> 0, x2 |-> 3, y2 |-> 4]>>}
Points == {<<>>, <<[x |-> 3, y |-> 4]>>}
Rects == {<<>>, <<[x |-> 1, y |-> 2, width |-> 3, height |-> 4]>>}
Circles == {<<>>, <<[x |-> 1, y |-> 2, radius |-> 3]>>}

Box == [tag |-> "Rectangle", width |-> 2, height |-> 2, length |-> 0, radius |-> 0,
        vertices |-> << <<-1, -1>>, <<1, -1>>, <<1, 1>>, <<-1, 1>> >>]
Segment == [tag |-> "Line", width |-> 0, height |-> 0, length |-> 3, radius |-> 0,
            vertices |-> <<>>]
Triangle == [tag |-> "Convex", width |-> 0, height |-> 0, length |-> 0, radius |-> 0,
             vertices |-> << <<0, 0>>, <<2, 0>>, <<0, 1>> >>]
Ball == [tag |-> "Circle", width |-> 0, height |-> 0, length |-> 0, radius |-> 2,
         vertices |-> <<>>]
Plane == [tag |-> "Plane", width |-> 0, height |-> 0, length |-> 0, radius |-> 0,
          vertices |-> <<>>]

ShapeLists == {<<>>, <<Box, Ball>>, <<Plane, Segment>>, <<Triangle>>}
\* Shape i of a body has offset (i, -i) or (0, 0), and angle i or 0.
Bodies == {<<>>} \cup
          {<<[position |-> <<1, 2>>, angle |-> q, shapes |-> sl,
              shapeOffsets |-> [i \in 1..Len(sl) |-> IF ko THEN <<i, -i>> ELSE <<0, 0>>],
              shapeAngles |-> [i \in 1..Len(sl) |-> IF ka THEN i ELSE 0]]>> :
           q \in {0, 1}, sl \in ShapeLists, ko \in BOOLEAN, ka \in BOOLEAN}
Views == {<<0, 0>>, <<3, 4>>}

(***************************************************************************)
(* The state machine: one step is one call of a public method.             *)
(***************************************************************************)
\* color and cw are the color and columnWidth arguments of a direct start
\* call, body and view the body and the camera view of a renderPhysicsBody call.
Call(op, nullArg, x, y, frags) ==
    [op |-> op, nullArg |-> nullArg, x |-> x, y |-> y, frags |-> frags,
     color |-> "", cw |-> Undefined, body |-> <<>>, view |-> <<0, 0>>]

Snapshot == [state |-> DrawingState(surface), depth |-> Len(surface.stack)]

\* start ran in the call that produced this (only start calls setTransform).
Started(this) == \E i \in 1..Len(this.emitted) : this.emitted[i].call = "setTransform"

Commit(this, call) ==
    /\ Len(this.surface.stack) <= MaxDepth
    /\ surface' = this.surface
    /\ columnWidth' = this.columnWidth
    /\ currentX' = this.currentX
    /\ currentY' = this.currentY
    /\ currentColor' = this.currentColor
    /\ currentAlpha' = this.currentAlpha
    /\ emitted' = this.emitted
    /\ raised' = this.raised
    /\ last' = call
    /\ UNCHANGED <<context, sprite, font, lineHeight, renderShadow>>

\* The history of a call that is neither start, stop nor a direct line.
Forget(this) ==
    /\ starts' = <<>>
    /\ stops' = 0
    /\ run' = [run EXCEPT !.ok = FALSE, !.calls = IF Started(this) THEN 0 ELSE @,
                          !.n = IF Started(this) THEN 0 ELSE @]

Init ==
    \E canvas \in BOOLEAN, gameContext \in {<<>>, <<Ctx2D>>}, hostState \in HostStates,
       config \in Configs :
        LET this == Debug(canvas, gameContext, hostState, config)
        IN  /\ canvas \/ (gameContext = <<>> /\ hostState = FreshState)
            /\ gameContext # <<>> \/ hostState = FreshState
            /\ context = this.context
            /\ sprite = this.sprite
            /\ surface = this.surface
            /\ font = this.font
            /\ columnWidth = this.columnWidth
            /\ lineHeight = this.lineHeight
            /\ renderShadow = this.renderShadow
            /\ currentX = this.currentX
            /\ currentY = this.currentY
            /\ currentColor = this.currentColor
            /\ currentAlpha = this.currentAlpha
            /\ emitted = this.emitted
            /\ raised = this.raised
            /\ last = Call("new", FALSE, Undefined, Undefined, <<>>)
            /\ starts = <<>>
            /\ stops = 0
            /\ run = [x0 |-> 0, y0 |-> 0, n |-> 0, ok |-> FALSE, calls |-> 0]

Start ==
    \E a \in StartArgs, color \in ColorArgs :
        /\ Commit(start(This, a[1], a[2], color, a[3]),
                  [Call("start", FALSE, a[1], a[2], <<>>) EXCEPT !.color = color,
                                                                !.cw = a[3]])
        /\ stops' = 0
        /\ IF context = NullContext
           THEN starts' = <<>> /\ run' = [run EXCEPT !.ok = FALSE]
           ELSE /\ starts' = LET ss == IF stops = 0 THEN Append(starts, Snapshot)
                                       ELSE <<Snapshot>>
                              IN  IF Len(ss) > 2 THEN Tail(ss) ELSE ss
                /\ run' = [x0 |-> currentX', y0 |-> currentY', n |-> 0, ok |-> TRUE, calls |-> 0]

Stop ==
    /\ Commit(stop(This), Call("stop", FALSE, Undefined, Undefined, <<>>))
    /\ IF context # NullContext /\ stops < Len(starts)
       THEN starts' = starts /\ stops' = stops + 1
       ELSE starts' = <<>> /\ stops' = 0
    /\ run' = [run EXCEPT !.ok = FALSE]

Line ==
    \E a \in LineArgs :
        /\ run.calls < MaxLines
        /\ Commit(line(This, "hello", a[1], a[2]), Call("line", FALSE, a[1], a[2], <<>>))
        /\ starts' = <<>>
        /\ stops' = 0
        /\ run' = [run EXCEPT !.calls = @ + 1, !.n = @ + 1,
                              !.ok = @ /\ a = <<Undefined, Undefined>>]

Splitline ==
    \E frags \in FragLists :
        /\ run.calls < MaxLines
        /\ Commit(splitline(This, frags), Call("splitline", FALSE, Undefined, Undefined, frags))
        /\ starts' = <<>>
        /\ stops' = 0
        /\ run' = [run EXCEPT !.calls = @ + 1, !.ok = FALSE]

\* A call of a render* method.
RenderCall(this, call) ==
    /\ Len(this.surface.stack) <= Len(surface.stack) \/ Len(surface.stack) < MaxOpen
    /\ Commit(this, call)
    /\ Forget(this)

\* A render* call with the (x, y, color) arguments of the text methods.
Render(this, op, nullArg, x, y) == RenderCall(this, Call(op, nullArg, x, y, <<>>))

RenderSoundInfo ==
    \E sound \in Sounds, color \in RenderColors :
        Render(renderSoundInfo(This, sound, RenderX, RenderY, color), "renderSoundInfo", sound = <<>>, RenderX, RenderY)

RenderCameraInfo ==
    \E camera \in Cameras, color \in RenderColors :
        Render(renderCameraInfo(This, camera, RenderX, RenderY, color), "renderCameraInfo", camera = <<>>, RenderX, RenderY)

RenderPointer ==
    \E pointer \in Pointers, hideIfUp \in {Undefined, <<TRUE>>}, color \in RenderColors :
        Render(renderPointer(This, pointer, hideIfUp, "", "", color), "renderPointer",
               pointer = <<>>, hideIfUp, Undefined)

RenderSpriteInputInfo ==
    \E spr \in Sprites, color \in RenderColors :
        Render(renderSpriteInputInfo(This, spr, RenderX, RenderY, color), "renderSpriteInputInfo",
               spr = <<>>, RenderX, RenderY)

RenderKey ==
    \E key \in Keys, color \in RenderColors :
        Render(renderKey(This, key, RenderX, RenderY, color), "renderKey", key = <<>>, RenderX, RenderY)

RenderInputInfo ==
    \E color \in RenderColors :
        Render(renderInputInfo(This, RenderX, RenderY, color), "renderInputInfo", FALSE, RenderX, RenderY)

RenderSpriteBounds ==
    \E spr \in Sprites, color \in RenderColors, filled \in {Undefined, <<FALSE>>} :
        Render(renderSpriteBounds(This, spr, color, filled), "renderSpriteBounds",
               spr = <<>>, Undefined, Undefined)

RenderSpriteInfo ==
    \E spr \in Sprites, color \in RenderColors :
        Render(renderSpriteInfo(This, spr, RenderX, RenderY, color), "renderSpriteInfo", spr = <<>>, RenderX, RenderY)

RenderSpriteCoords ==
    \E spr \in Sprites, color \in RenderColors :
        Render(renderSpriteCoords(This, spr, RenderX, RenderY, color), "renderSpriteCoords", spr = <<>>, RenderX, RenderY)

RenderLine ==
    \E ln \in Lines, color \in RenderColors :
        Render(renderLine(This, ln, color), "renderLine", ln = <<>>, Undefined, Undefined)

RenderLineInfo ==
    \E ln \in Lines, color \in RenderColors :
        Render(renderLineInfo(This, ln, RenderX, RenderY, color), "renderLineInfo", ln = <<>>, RenderX, RenderY)

RenderPointInfo ==
    \E point \in Points, color \in RenderColors :
        Render(renderPointInfo(This, point, RenderX, RenderY, color), "renderPointInfo", point = <<>>, RenderX, RenderY)

RenderPixel ==
    \E x \in {3}, y \in {4}, color \in RenderColors :
        Render(renderPixel(This, x, y, color), "renderPixel", FALSE, <<x>>, <<y>>)

RenderPoint ==
    \E point \in Points, color \in RenderColors :
        Render(renderPoint(This, point, color), "renderPoint", point = <<>>, Undefined, Undefined)

RenderRectangle ==
    \E rect \in Rects, color \in RenderColors, filled \in {Undefined, <<FALSE>>} :
        Render(renderRectangle(This, rect, color, filled), "renderRectangle",
               rect = <<>>, Undefined, Undefined)

RenderCircle ==
    \E circle \in Circles, color \in RenderColors :
        Render(renderCircle(This, circle, color), "renderCircle", circle = <<>>,
               Undefined, Undefined)

RenderText ==
    \E x \in {3}, y \in {4}, color \in RenderColors, fnt \in {"", "bold 20pt Arial"} :
        Render(renderText(This, "hello", x, y, color, fnt), "renderText", FALSE, <<x>>, <<y>>)

RenderBodyInfo ==
    \E spr \in Sprites, color \in RenderColors :
        Render(renderBodyInfo(This, spr, RenderX, RenderY, color), "renderBodyInfo", spr = <<>>, RenderX, RenderY)

RenderPhysicsBody ==
    \E body \in Bodies, color \in RenderColors, view \in Views :
        RenderCall(renderPhysicsBody(This, body, color, view),
                   [Call("renderPhysicsBody", body = <<>>, Undefined, Undefined, <<>>)
                        EXCEPT !.body = body, !.view = view])

\* A direct call of one of the four shape helpers.
RenderShape ==
    \E shape \in {Box, Segment, Triangle, Ball}, k \in BOOLEAN :
        LET offset == IF k THEN <<1, -1>> ELSE <<0, 0>>
            angle == IF k THEN 1 ELSE 0
            x == 10
            y == 20
            this == CASE IsRectangle(shape) -> renderShapeRectangle(This, x, y, 0, shape, offset, angle)
                      [] IsLine(shape) -> renderShapeLine(This, x, y, 0, shape, offset, angle)
                      [] IsCircle(shape) -> renderShapeCircle(This, x, y, 0, shape, offset, angle)
                      [] OTHER -> renderShapeConvex(This, x, y, 0, shape, offset, angle)
        IN  Render(this, "renderShape", FALSE, <<x>>, <<y>>)

\* Between two overlay brackets the game draws a frame of its own on the
\* context it shares with the overlay (direct mode), leaving its drawing
\* state behind.
HostDraw ==
    /\ context = Ctx2D /\ ~sprite
    /\ surface.stack = <<>>
    /\ \E st \in HostStates :
        /\ st # DrawingState(surface)
        /\ surface' = WithState(surface, st)
    /\ emitted' = <<>>
    /\ raised' = FALSE
    /\ last' = Call("host", FALSE, Undefined, Undefined, <<>>)
    /\ starts' = <<>>
    /\ stops' = 0
    /\ run' = [run EXCEPT !.ok = FALSE]
    /\ UNCHANGED <<context, sprite, font, columnWidth, lineHeight, renderShadow,
                   currentX, currentY, currentColor, currentAlpha>>

Next ==
    \/ Start
    \/ Stop
    \/ Line
    \/ Splitline
    \/ RenderSoundInfo
    \/ RenderCameraInfo
    \/ RenderPointer
    \/ RenderSpriteInputInfo
    \/ RenderKey
    \/ RenderInputInfo
    \/ RenderSpriteBounds
    \/ RenderSpriteInfo
    \/ RenderSpriteCoords
    \/ RenderLine
    \/ RenderLineInfo
    \/ RenderPointInfo
    \/ RenderPixel
    \/ RenderPoint
    \/ RenderRectangle
    \/ RenderCircle
    \/ RenderText
    \/ RenderBodyInfo
    \/ RenderPhysicsBody
    \/ RenderShape
    \/ HostDraw

Spec == Init /\ [][Next]_vars

(***************************************************************************)
(* The specifications the properties are checked under: Spec restricted to *)
(* the calls a property is about, so that its state space can be explored  *)
(* in full.                                                                *)
(***************************************************************************)
\* The lifecycle is Idle when no start is without its stop.
Idle == surface.stack = <<>>

\* The instance as constructed, its configuration left alone.
InitDefault == Init /\ lineHeight = DefaultLineHeight /\ renderShadow

\* The text cursor: brackets that are not nested, line, splitline and the
\* shape helpers, under every configuration.
StartIdle == Idle /\ Start

NextLayout == StartIdle \/ Stop \/ Line \/ Splitline \/ RenderShape

SpecLayout == Init /\ [][NextLayout]_vars

\* The bracket alone, nested too, on a surface the game also draws on.
NextBracket == Start \/ Stop \/ Line \/ HostDraw

SpecBracket == InitDefault /\ [][NextBracket]_vars

\* The render* methods, on a surface the game also draws on.
NextRender ==
    \/ RenderSoundInfo
    \/ RenderCameraInfo
    \/ RenderPointer
    \/ RenderSpriteInputInfo
    \/ RenderKey
    \/ RenderInputInfo
    \/ RenderSpriteBounds
    \/ RenderSpriteInfo
    \/ RenderSpriteCoords
    \/ RenderLine
    \/ RenderLineInfo
    \/ RenderPointInfo
    \/ RenderPixel
    \/ RenderPoint
    \/ RenderRectangle
    \/ RenderCircle
    \/ RenderText
    \/ RenderBodyInfo
    \/ RenderPhysicsBody
    \/ HostDraw

SpecRender == InitDefault /\ [][NextRender]_vars

\* The bracket and render* methods that end it, leave it open or never
\* open it, in both rendering modes.
NextMode ==
    \/ Start
    \/ Stop
    \/ RenderPointer
    \/ RenderSoundInfo
    \/ RenderPixel

SpecMode == InitDefault /\ [][NextMode]_vars

\* The text methods, called directly in a bracket and by render* methods,
\* under every configuration.
NextText ==
    \/ StartIdle
    \/ Stop
    \/ Line
    \/ Splitline
    \/ RenderPointer
    \/ RenderKey

SpecText == Init /\ [][NextText]_vars

\* Every public method, on a Debug object constructed without a context.
InitNoSurface == Init /\ context = NullContext

NextNoSurface ==
    \/ Start
    \/ Stop
    \/ Line
    \/ Splitline
    \/ RenderSoundInfo
    \/ RenderCameraInfo
    \/ RenderPointer
    \/ RenderSpriteInputInfo
    \/ RenderKey
    \/ RenderInputInfo
    \/ RenderSpriteBounds
    \/ RenderSpriteInfo
    \/ RenderSpriteCoords
    \/ RenderLine
    \/ RenderLineInfo
    \/ RenderPointInfo
    \/ RenderPixel
    \/ RenderPoint
    \/ RenderRectangle
    \/ RenderCircle
    \/ RenderText
    \/ RenderBodyInfo
    \/ RenderPhysicsBody
    \/ RenderShape

SpecNoSurface == InitNoSurface /\ [][NextNoSurface]_vars

(***************************************************************************)
(* Properties.                                                             *)
(***************************************************************************)
Count(calls, name) == Cardinality({i \in 1..Len(calls) : calls[i].call = name})

FillTexts(calls) == SelectSeq(calls, LAMBDA e : e.call = "fillText")

\* The fillText calls of the text itself: with the shadow on, every second one.
MainTexts(calls) ==
    LET ft == FillTexts(calls)
    IN  IF renderShadow THEN [i \in 1..(Len(ft) \div 2) |-> ft[2 * i]] ELSE ft

\* What the bracket is to leave as it found it.
Ambient(st) == [fillStyle |-> st.fillStyle, strokeStyle |-> st.strokeStyle,
                font |-> st.font, globalAlpha |-> st.globalAlpha,
                transform |-> st.transform]

RenderOps == {"renderSoundInfo", "renderCameraInfo", "renderPointer",
              "renderSpriteInputInfo", "renderKey", "renderInputInfo",
              "renderSpriteInfo", "renderSpriteCoords", "renderLine",
              "renderLineInfo", "renderPointInfo", "renderPixel", "renderPoint",
              "renderRectangle", "renderCircle", "renderText", "renderBodyInfo",
              "renderPhysicsBody"}

\* C1: with the surface available, every render* call that returns makes as
\* many context.save as context.restore calls and leaves the save-stack
\* depth, the global alpha and the transform of the surface as they were,
\* however many text or shape primitives it emitted.
C1_RenderBalanced ==
    [][(last'.op \in RenderOps /\ context = Ctx2D /\ ~raised') =>
          /\ Count(emitted', "save") = Count(emitted', "restore")
          /\ Len(surface'.stack) = Len(surface.stack)
          /\ surface'.globalAlpha = surface.globalAlpha
          /\ surface'.transform = surface.transform]_vars

\* A body of two shapes was rendered on a surface whose alpha and
\* transform are not the ones start sets.
C1_Witness ==
    /\ last.op = "renderPhysicsBody" /\ context = Ctx2D /\ ~raised
    /\ Count(emitted, "save") = 3 /\ Count(emitted, "stroke") = 2
    /\ surface.globalAlpha = 0 /\ surface.transform # Identity

\* The drawing state the surface was in before the latest start.
BeforeStart == starts[Len(starts)].state

\* C2 as stated: start immediately followed by stop leaves the fill color,
\* the stroke color, the font, the global alpha and the transform of the
\* surface as they were before start, in direct and in offscreen mode.
C2_Original ==
    (context = Ctx2D /\ stops = 1) => Ambient(surface) = Ambient(BeforeStart)

\* C2 amended: start immediately followed by stop leaves the stroke color,
\* the font, the global alpha and the transform as they were before start in
\* both modes, and the fill color too in direct mode; in offscreen mode stop
\* leaves the fill color at the sentinel '#ff0000'.
C2_Amended ==
    (context = Ctx2D /\ stops = 1) =>
        /\ surface.strokeStyle = BeforeStart.strokeStyle
        /\ surface.font = BeforeStart.font
        /\ surface.globalAlpha = BeforeStart.globalAlpha
        /\ surface.transform = BeforeStart.transform
        /\ surface.fillStyle = IF sprite THEN Sentinel ELSE BeforeStart.fillStyle

\* A start and its stop ran, in direct mode, on a surface whose drawing
\* state differs in every field from the one start sets.
C2_Witness ==
    /\ context = Ctx2D /\ ~sprite /\ stops = 1 /\ last.op = "stop"
    /\ Ambient(surface) = Ambient(SceneState)
    /\ currentColor = White

\* C3 as stated: with context null, no call of a public method emits a
\* context call, changes a cursor field or raises.
C3_Original ==
    context = NullContext =>
        /\ emitted = <<>>
        /\ ~raised
        /\ currentX = 0 /\ currentY = 0 /\ currentColor = UndefinedColor
        /\ currentAlpha = 1 /\ columnWidth = DefaultColumnWidth

\* C3 amended: with context null, start, line, splitline and the render*
\* methods emit no context call, change no cursor field and do not raise
\* (renderSpriteBounds provided its sprite is not null); stop and the four
\* renderShape* helpers have no guard and raise, emitting nothing and
\* changing no cursor field.
C3_Amended ==
    context = NullContext =>
        /\ emitted = <<>>
        /\ currentX = 0 /\ currentY = 0 /\ currentColor = UndefinedColor
        /\ currentAlpha = 1 /\ columnWidth = DefaultColumnWidth
        /\ raised <=> \/ last.op \in {"stop", "renderShape"}
                      \/ last.op = "renderSpriteBounds" /\ last.nullArg

\* A line call with explicit x and y was made with context null.
C3_Witness ==
    /\ context = NullContext /\ last.op = "line" /\ last.x # Undefined
    /\ ~raised /\ emitted = <<>>

\* C8: after start, start, stop, stop the global alpha of the surface is the
\* value the second start recorded, which is 1, and not the alpha a the
\* surface had before the first start (when a is not 1), while the
\* save-stack depth is back at its value before the first start.
C8_NestedAlpha ==
    (context = Ctx2D /\ Len(starts) = 2 /\ stops = 2) =>
        /\ surface.globalAlpha = starts[2].state.globalAlpha
        /\ surface.globalAlpha = 1
        /\ currentAlpha = 1
        /\ starts[1].state.globalAlpha # 1 =>
               surface.globalAlpha # starts[1].state.globalAlpha
        /\ Len(surface.stack) = starts[1].depth

\* start, start, stop, stop ran on a surface whose alpha was 0.
C8_Witness ==
    /\ context = Ctx2D /\ Len(starts) = 2 /\ stops = 2 /\ last.op = "stop"
    /\ starts[1].state.globalAlpha = 0
    /\ surface.globalAlpha = 1

\* C4: in a bracket opened at y0, after N line calls that pass neither x nor
\* y, currentY is y0 + N * lineHeight, the N-th of them drew its text at
\* y0 + (N - 1) * lineHeight, and currentX is as start left it.
C4_LineCursor ==
    run.ok =>
        /\ currentY = run.y0 + run.n * lineHeight
        /\ currentX = run.x0
        /\ run.n >= 1 =>
               /\ last.op = "line"
               /\ emitted[Len(emitted)].call = "fillText"
               /\ emitted[Len(emitted)].args =
                      <<run.x0, run.y0 + (run.n - 1) * lineHeight>>

\* Two line calls without x and y followed start(10, 20, ...), at the
\* constructor's line height.
C4_Witness ==
    /\ run.ok /\ run.n = 2 /\ run.y0 = 20 /\ lineHeight = DefaultLineHeight
    /\ currentY = 52

\* C5: a splitline call with k fragments, k >= 0, draws fragment i (from 0)
\* at (currentX + i * columnWidth, currentY), in argument order, then adds
\* one lineHeight to currentY whatever k is, and leaves currentX alone.
C5_SplitlineColumns ==
    [][(last'.op = "splitline" /\ context = Ctx2D) =>
          LET texts == MainTexts(emitted')
          IN  /\ Len(texts) = Len(last'.frags)
              /\ \A i \in 1..Len(texts) :
                    /\ texts[i].text = last'.frags[i]
                    /\ texts[i].args = <<currentX + (i - 1) * columnWidth, currentY>>
              /\ currentY' = currentY + lineHeight
              /\ currentX' = currentX]_vars

\* A splitline of two fragments ran with a column width of 150 from x = 10.
C5_Witness ==
    /\ last.op = "splitline" /\ context = Ctx2D /\ Len(last.frags) = 2
    /\ columnWidth = 150 /\ currentX = 10
    /\ emitted[Len(emitted)].args[1] = 160

\* The fragments drawn by the latest call, when it was line or splitline.
Fragments == IF last.op = "line" THEN 1 ELSE Len(last.frags)

\* C6: with renderShadow on, each fragment drawn by line or splitline makes
\* two fillText calls, the first in 'rgb(0,0,0)' at (x + 1, y + 1) and right
\* after it the second at (x, y); with renderShadow off it makes one, so the
\* same calls make half as many fillText calls.
C6_ShadowPairs ==
    (last.op \in {"line", "splitline"} /\ context = Ctx2D) =>
        /\ emitted = FillTexts(emitted)
        /\ Len(emitted) = IF renderShadow THEN 2 * Fragments ELSE Fragments
        /\ renderShadow =>
               \A i \in 1..Fragments :
                   /\ emitted[2 * i - 1].fillStyle = Black
                   /\ emitted[2 * i - 1].text = emitted[2 * i].text
                   /\ emitted[2 * i - 1].args =
                          <<emitted[2 * i].args[1] + 1, emitted[2 * i].args[2] + 1>>

\* A splitline of two fragments ran with the shadow on, in a bracket whose
\* color is not black.
C6_Witness ==
    /\ last.op = "splitline" /\ context = Ctx2D /\ renderShadow
    /\ Len(last.frags) = 2 /\ Len(emitted) = 4
    /\ emitted[2].fillStyle = "rgb(1,2,3)"

\* C7 as stated: in a bracket, every line or splitline call, a line call
\* with explicit x and y too, makes currentY larger, by lineHeight, for
\* every configured lineHeight.
C7_Original ==
    [][(last'.op \in {"line", "splitline"} /\ context = Ctx2D /\ ~Idle) =>
          /\ currentY' = currentY + lineHeight
          /\ currentY' > currentY]_vars

\* C7 amended: in a bracket, every splitline call and every line call that
\* passes no y adds lineHeight to currentY, which makes it larger exactly
\* when lineHeight > 0; a line call that passes y sets currentY to
\* y + lineHeight, after drawing at y.
C7_Amended ==
    [][(last'.op \in {"line", "splitline"} /\ context = Ctx2D /\ ~Idle) =>
          /\ last'.y = Undefined =>
                 /\ currentY' = currentY + lineHeight
                 /\ currentY' > currentY <=> lineHeight > 0
          /\ last'.y # Undefined =>
                 /\ currentY' = last'.y[1] + lineHeight
                 /\ emitted'[Len(emitted')].args[2] = last'.y[1]]_vars

\* In a bracket, a second line call passed y = 20 where the cursor was
\* already past it.
C7_Witness ==
    /\ last.op = "line" /\ last.y = <<20>> /\ context = Ctx2D /\ ~Idle
    /\ run.calls = 2 /\ lineHeight = DefaultLineHeight /\ currentY = 36

\* C9: a render* call with a null data argument, with the surface available,
\* emits no context call, leaves no bracket open and does not raise.
C9_NullArgument ==
    [][(last'.op \in RenderOps /\ last'.nullArg /\ context = Ctx2D) =>
          /\ emitted' = <<>>
          /\ ~raised'
          /\ Len(surface'.stack) = Len(surface.stack)]_vars

\* C10 as stated: while Idle, a call of line, splitline or a shape helper
\* emits no context call, leaves the drawing state alone and does not raise.
C10_Original ==
    [][(Idle /\ last'.op \in {"line", "splitline", "renderShape"}) =>
          /\ emitted' = <<>>
          /\ surface' = surface
          /\ ~raised']_vars

\* C10 amended: while Idle, line and splitline do not raise, and emit
\* nothing and leave the surface alone only when context is null; with the
\* surface available they draw their fragments as in a bracket, and a shape
\* helper strokes its shape and leaves the drawing state as it was.
C10_Amended ==
    [][(Idle /\ last'.op \in {"line", "splitline", "renderShape"}) =>
          /\ last'.op # "renderShape" =>
                 /\ ~raised'
                 /\ context = NullContext => emitted' = <<>> /\ surface' = surface
                 /\ context = Ctx2D => Len(MainTexts(emitted')) =
                        IF last'.op = "line" THEN 1 ELSE Len(last'.frags)
          /\ (last'.op = "renderShape" /\ context = Ctx2D) =>
                 /\ ~raised'
                 /\ Count(emitted', "stroke") = 1
                 /\ surface' = surface]_vars

\* A line call drew its text while no bracket was open.
C10_Witness ==
    /\ Idle /\ last.op = "line" /\ context = Ctx2D /\ ~raised
    /\ Len(emitted) = 2 /\ currentColor = UndefinedColor

\* C11: with the surface available, start(x, y, color, columnWidth) sets
\* currentX to x (0 when x is not a number), currentY to y (0 likewise),
\* currentColor to color ('rgb(255,255,255)' when falsy), columnWidth to the
\* argument (0 when undefined, whatever the instance held) and currentAlpha
\* to the global alpha the surface had before the call, and leaves the
\* surface with the identity transform, stroke and fill equal to that color,
\* the configured font and global alpha 1; every cursor field is a function
\* of the arguments and the surface alone.
C11_StartResets ==
    [][(last'.op = "start" /\ context = Ctx2D) =>
          /\ currentX' = IF last'.x = Undefined THEN 0 ELSE last'.x[1]
          /\ currentY' = IF last'.y = Undefined THEN 0 ELSE last'.y[1]
          /\ currentColor' = IF last'.color = "" THEN White ELSE last'.color
          /\ columnWidth' = IF last'.cw = Undefined THEN 0 ELSE last'.cw[1]
          /\ currentAlpha' = surface.globalAlpha
          /\ surface'.transform = Identity
          /\ surface'.strokeStyle = currentColor'
          /\ surface'.fillStyle = currentColor'
          /\ surface'.font = font
          /\ surface'.globalAlpha = 1
          /\ ~raised']_vars

\* start without arguments ran inside a bracket opened by start(10, 20,
\* 'rgb(1,2,3)', 150), on a surface the game had left with alpha 0.
C11_Witness ==
    /\ last.op = "start" /\ context = Ctx2D /\ last.cw = Undefined /\ last.color = ""
    /\ Len(starts) = 1 /\ Len(surface.stack) = 2
    /\ surface.stack[2].strokeStyle = "rgb(1,2,3)"
    /\ surface.stack[1].globalAlpha = 0
    /\ columnWidth = 0 /\ currentX = 0 /\ currentY = 0 /\ currentColor = White

\* The transform after translate(tx, ty) and rotate(q) from the identity.
XForm(tx, ty, q) == <<Cos(q), Sin(q), -Sin(q), Cos(q), tx, ty>>

\* The body of the latest renderPhysicsBody call, its position on the
\* screen (in screen units, relative to the camera view) and the offset of
\* its shape i in screen units.
Data == last.body[1]
ScreenX == p2pxi(Data.position[1]) - last.view[1]
ScreenY == p2pxi(Data.position[2]) - last.view[2]
OffsetX(i) == p2pxi(Data.shapeOffsets[i][1])
OffsetY(i) == p2pxi(Data.shapeOffsets[i][2])

\* A renderPhysicsBody call drew the shapes of its body.
Drawn == last.op = "renderPhysicsBody" /\ context = Ctx2D /\ ~raised /\ last.body # <<>>

\* C12: for a Line shape, renderPhysicsBody translates to the body position
\* plus the shape's offset in screen units, rotates by body angle plus shape
\* angle, and strokes one segment from the local origin to
\* (p2px(shape.length), 0).
C12_LineOffset ==
    Drawn =>
        \A i \in 1..Len(Data.shapes) :
            IsLine(Data.shapes[i]) =>
                \E k \in 1..(Len(emitted) - 1) :
                    LET m == XForm(ScreenX + OffsetX(i), ScreenY + OffsetY(i),
                                   Data.angle + Data.shapeAngles[i])
                    IN  /\ emitted[k].call = "moveTo"
                        /\ emitted[k].args = <<0, 0>>
                        /\ emitted[k].transform = m
                        /\ emitted[k + 1].call = "lineTo"
                        /\ emitted[k + 1].args = <<p2px(Data.shapes[i].length), 0>>
                        /\ emitted[k + 1].transform = m

\* The point of the surface a path call with arguments p reaches under the
\* transform m.
Apply(m, p) == <<m[1] * p[1] + m[3] * p[2] + m[5], m[2] * p[1] + m[4] * p[2] + m[6]>>

\* From emitted[k] on, the vertices of shape i are visited in list order
\* (moveTo, then lineTo), each at its own position in screen units moved by
\* (bx, by) plus the offset of the shape, unrotated, and the path is closed
\* and stroked.
PathAt(k, i, bx, by) ==
    LET pts == Data.shapes[i].vertices
        n   == Len(pts)
    IN  /\ k + n + 1 <= Len(emitted)
        /\ emitted[k].call = "moveTo"
        /\ \A j \in 2..n : emitted[k + j - 1].call = "lineTo"
        /\ \A j \in 1..n :
               /\ Apply(emitted[k + j - 1].transform, emitted[k + j - 1].args) =
                      <<p2pxi(pts[j][1]) + bx + OffsetX(i), p2pxi(pts[j][2]) + by + OffsetY(i)>>
               /\ SubSeq(emitted[k + j - 1].transform, 1, 4) = <<1, 0, 0, 1>>
        /\ emitted[k + n].call = "closePath"
        /\ emitted[k + n + 1].call = "stroke"

\* Shape i of the body is a rectangle or a convex polygon, unrotated.
Unrotated(i) ==
    IsConvex(Data.shapes[i]) /\ Data.angle = 0 /\ Data.shapeAngles[i] = 0

\* C13 as stated: a rectangle or convex polygon with body angle 0 and shape
\* angle 0 is stroked as the closed path through its vertices in list order,
\* each moved by the body's position in screen units plus the shape's
\* offset, unrotated, wherever the camera view is.
C13_Original ==
    Drawn =>
        \A i \in 1..Len(Data.shapes) :
            Unrotated(i) =>
                \E k \in 1..Len(emitted) :
                    PathAt(k, i, p2pxi(Data.position[1]), p2pxi(Data.position[2]))

\* C13 amended: such a shape is stroked as the closed path through its
\* vertices in list order, each moved by the body's position in screen
\* units minus the position of the camera view, plus the shape's offset,
\* unrotated.
C13_Amended ==
    Drawn =>
        \A i \in 1..Len(Data.shapes) :
            Unrotated(i) => \E k \in 1..Len(emitted) : PathAt(k, i, ScreenX, ScreenY)

\* An unrotated triangle with offset (1, -1) was drawn with the camera view
\* at (3, 4).
C13_Witness ==
    /\ Drawn /\ last.view = <<3, 4>> /\ Data.shapes = <<Triangle>> /\ Unrotated(1)
    /\ Data.shapeOffsets[1] = <<1, -1>>
    /\ Count(emitted, "lineTo") = 2 /\ Count(emitted, "stroke") = 1

\* The shapes of the body that are circles.
CircleShapes == {i \in 1..Len(Data.shapes) : IsCircle(Data.shapes[i])}

\* C14: renderPhysicsBody strokes one arc per circle shape, from angle 0 to
\* one full turn, with the shape's radius in screen units, centered at the
\* body's position on the screen plus the shape's offset in screen units,
\* under a transform without rotation whatever the body angle and the shape
\* angle are.
C14_CircleArc ==
    Drawn =>
        /\ Count(emitted, "arc") = Cardinality(CircleShapes)
        /\ \A i \in CircleShapes :
               \E k \in 1..(Len(emitted) - 2) :
                   /\ emitted[k].call = "arc"
                   /\ emitted[k].args = <<0, 0, p2px(Data.shapes[i].radius), 0, FullTurn>>
                   /\ emitted[k].transform =
                          <<1, 0, 0, 1, ScreenX + OffsetX(i), ScreenY + OffsetY(i)>>
                   /\ emitted[k + 1].call = "closePath"
                   /\ emitted[k + 2].call = "stroke"

\* A circle with offset (2, -2) and angle 2 was drawn for a body turned by
\* a quarter.
C14_Witness ==
    /\ Drawn /\ Data.shapes = <<Box, Ball>> /\ Data.angle = 1
    /\ Data.shapeAngles[2] = 2 /\ Data.shapeOffsets[2] = <<2, -2>>
    /\ Count(emitted, "arc") = 1 /\ Count(emitted, "stroke") = 2

\* The shapes of the body whose tag renderPhysicsBody recognizes.
KnownShapes ==
    {i \in 1..Len(Data.shapes) :
        Data.shapes[i].tag \in {"Rectangle", "Line", "Convex", "Circle"}}

\* The context calls one helper makes for a shape, by name.
HelperCalls(shape) ==
    IF IsCircle(shape)
    THEN <<"beginPath", "save", "translate", "arc", "closePath", "stroke", "restore">>
    ELSE <<"beginPath", "save", "translate", "rotate", "moveTo">>
         \o [j \in 1..(IF IsLine(shape) THEN 1 ELSE Len(shape.vertices) - 1) |-> "lineTo"]
         \o <<"closePath", "stroke", "restore">>

\* From emitted[k] on, one helper drew shape i inside its own save/restore
\* pair, with the offset and the angle stored at index i where the helper
\* of its tag reads them.
HelperAt(k, i) ==
    LET shape == Data.shapes[i]
        calls == HelperCalls(shape)
    IN  /\ k + Len(calls) - 1 <= Len(emitted)
        /\ \A j \in 1..Len(calls) : emitted[k + j - 1].call = calls[j]
        /\ emitted[k + 2].args =
               IF IsLine(shape) THEN <<ScreenX, ScreenY>>
               ELSE <<ScreenX + OffsetX(i), ScreenY + OffsetY(i)>>
        /\ ~IsCircle(shape) => emitted[k + 3].args = <<Data.angle + Data.shapeAngles[i]>>
        /\ IsCircle(shape) => emitted[k + 3].args[3] = p2px(shape.radius)
        /\ IsLine(shape) => emitted[k + 5].args = <<p2px(shape.length), 0>>
        /\ IsConvex(shape) =>
               \A j \in 1..Len(shape.vertices) :
                   emitted[k + 3 + j].args =
                       <<p2pxi(shape.vertices[j][1]), p2pxi(shape.vertices[j][2])>>

\* C15: renderPhysicsBody draws each shape tagged Rectangle, Line, Convex or
\* Circle once, by the helper of its tag (a Rectangle as a rectangle only),
\* with the offset and angle stored at the shape's index and inside a
\* save/restore pair of its own; it skips a shape of another tag without a
\* context call and without raising; and the helpers leave the cursor
\* (currentX, currentY, currentColor, columnWidth) as start set it.
C15_Dispatch ==
    Drawn =>
        /\ \A i \in KnownShapes : \E k \in 1..Len(emitted) : HelperAt(k, i)
        /\ Count(emitted, "save") = 1 + Cardinality(KnownShapes)
        /\ Count(emitted, "restore") = 1 + Cardinality(KnownShapes)
        /\ Count(emitted, "beginPath") = Cardinality(KnownShapes)
        /\ Count(emitted, "stroke") = Cardinality(KnownShapes)
        /\ Count(emitted, "translate") = Cardinality(KnownShapes)
        /\ currentX = 0 /\ currentY = 0 /\ columnWidth = 0
        /\ currentColor \in RenderColors

\* A body of a plane and a segment, with offsets and angles that differ by
\* index, was rendered: the plane was skipped, the segment drawn.
C15_Witness ==
    /\ Drawn /\ Data.shapes = <<Plane, Segment>>
    /\ Data.shapeAngles = <<1, 2>> /\ Data.shapeOffsets[1] # Data.shapeOffsets[2]
    /\ Count(emitted, "save") = 2 /\ Count(emitted, "stroke") = 1

\* The fills of the texture with the sentinel color among calls.
SentinelFills(calls) ==
    SelectSeq(calls, LAMBDA e : /\ e.call = "fillRect" /\ e.fillStyle = Sentinel
                                /\ e.args = <<0, 0, 400, 400>>)

\* C16: this.sprite, which says that the mode is offscreen, never changes
\* after construction; in offscreen mode every call that runs stop (stop
\* itself, or a render* method that opened its bracket and returned) ends
\* with context.restore, the assignment of the recorded alpha, one sentinel
\* fill and then one texture upload, and no other call uploads; in direct
\* mode no call fills with the sentinel or uploads.
C16_ModeFixed ==
    [][LET n == Len(emitted')
           ranStop == \/ last'.op = "stop"
                      \/ /\ last'.op \in RenderOps /\ ~raised'
                         /\ \E i \in 1..n : emitted'[i].call = "setTransform"
       IN  /\ sprite' = sprite
           /\ Count(emitted', "updateWebGLTexture") = IF sprite /\ ranStop THEN 1 ELSE 0
           /\ Len(SentinelFills(emitted')) = IF sprite /\ ranStop THEN 1 ELSE 0
           /\ (sprite /\ ranStop) =>
                  /\ emitted'[n].call = "updateWebGLTexture"
                  /\ SentinelFills(emitted') = <<emitted'[n - 1]>>
                  /\ emitted'[n - 2].call = "restore"
                  /\ surface'.globalAlpha = currentAlpha']_vars

\* In offscreen mode, renderPixel drew its pixel and its stop filled and
\* uploaded the texture.
C16_Witness ==
    /\ sprite /\ last.op = "renderPixel" /\ ~raised
    /\ Count(emitted, "fillRect") = 2 /\ Len(SentinelFills(emitted)) = 1
    /\ emitted[Len(emitted)].call = "updateWebGLTexture"

\* C17: in a bracket opened by start with color c, the text draw proper of
\* every line and splitline call (the one that is not the shadow) is filled
\* with c, with renderShadow on or off, whatever fill style the render*
\* method set between its start and the call.
C17_TextColor ==
    (/\ context = Ctx2D
     /\ \/ last.op \in {"line", "splitline"} /\ ~Idle
        \/ last.op \in {"renderPointer", "renderKey"}) =>
        \A i \in 1..Len(MainTexts(emitted)) : MainTexts(emitted)[i].fillStyle = currentColor

====
